---- MODULE Spec2Model ----
(***************************************************************************)
(* Model of src/redisdb.go: the registry of databases (Redis.RedisDb,      *)
(* Redis.RedisDbs) and the key space of one database (RedisDb.Set, Get,    *)
(* Delete, Exists, Expires, GetOrExpired, IsEmpty, IsEmptyExpire, Keys,    *)
(* ExpiringKeys), all run by concurrent goroutines under the one           *)
(* sync.RWMutex that RedisDb.Mu() hands out.                               *)
(*                                                                         *)
(* A goroutine is a process p with a program counter pc[p]; every public   *)
(* method is cut at its lock operations: <Op>_RLock / <Op>_Lock is the     *)
(* call up to and including the lock acquisition, <Op>_Body is the code    *)
(* under the lock, <Op>_Unlock is the deferred unlock and the return.      *)
(***************************************************************************)
EXTENDS Integers, Sequences, FiniteSets, TLC

\* ---------------------------------------------------------------- bounds
MaxTime == 2                   \* the wall clock runs 0..MaxTime
MaxDelKeys == 2                \* longest argument list given to Delete (Spec)
RegMaxDelKeys == 1             \* the same under SpecReg
SmallMaxDelKeys == 2           \* the same under SpecHist, SpecHook
LiveMaxDelKeys == 1            \* the same under SpecLive

NoProc == "none"
NilKey == "<nil>"              \* a nil *string handed to Delete

\* ----------------------------------------------------------------- items
\* An Item is seen by this file only through Expires(), Expiry(), OnDelete();
\* id stands for the identity of the value behind the interface.
NilItem == [id |-> 0, expires |-> FALSE, expiry |-> 0]
Items ==
  { [id |-> 1, expires |-> FALSE, expiry |-> 0],
    [id |-> 2, expires |-> TRUE,  expiry |-> 0],
    [id |-> 3, expires |-> TRUE,  expiry |-> 1] }

\* the argument lists of Delete(keys ...*string)
RECURSIVE SeqsUpTo(_, _)
SeqsUpTo(S, n) ==
  IF n = 0 THEN { <<>> }
  ELSE LET shorter == SeqsUpTo(S, n - 1)
       IN  shorter \cup { Append(s, x) : s \in { t \in shorter : Len(t) = n - 1 }, x \in S }

\* What the callers do: the goroutines, and the values they pass in.
\* DbWorkload exercises one database in depth, RegWorkload the registry
\* with two database ids over a smaller key space.
\* SmallWorkload has three goroutines on one key; under it hist counts the
\* hooks and removals of each key since its last Set.
DbWorkload ==
  [procs |-> {"p1", "p2"}, dbIds |-> {0}, keys |-> {"a", "b"},
   items |-> Items, maxDel |-> MaxDelKeys, history |-> FALSE]
RegWorkload ==
  [procs |-> {"p1", "p2"}, dbIds |-> {0, 1}, keys |-> {"a"},
   items |-> { i \in Items : i.id \in {1, 2} }, maxDel |-> RegMaxDelKeys,
   history |-> FALSE]
SmallWorkload ==
  [procs |-> {"p1", "p2", "p3"}, dbIds |-> {0}, keys |-> {"a"},
   items |-> { i \in Items : i.id \in {1, 2} }, maxDel |-> SmallMaxDelKeys,
   history |-> TRUE]

\* LiveWorkload is the one for the calls that wait for the lock.
LiveProcs == {"p1", "p2"}
LiveWorkload ==
  [procs |-> LiveProcs, dbIds |-> {0}, keys |-> {"a"},
   items |-> { i \in Items : i.id \in {1, 2} }, maxDel |-> LiveMaxDelKeys,
   history |-> FALSE]

VARIABLES
  workload,   \* the callers' workload, fixed from the start
  redisDbs,   \* Redis.redisDbs: DatabaseId -> *RedisDb (an index into dbs)
  dbs,        \* the RedisDb objects ever built by NewRedisDb, by address
  now,        \* time.Now()
  writer,     \* the goroutine holding the RWMutex in exclusive mode
  readers,    \* the goroutines holding the RWMutex in shared mode
  pc,         \* where each goroutine is
  call,       \* the method each goroutine is in and its arguments
  loc,        \* its local variables and its return value
  created,    \* history: how many NewRedisDb calls RedisDb() made per id
  returned,   \* history: the databases RedisDb() has returned per id
  hist        \* history: per database id and key, the OnDelete calls and the
              \* keys counted by Delete since the key was last Set

vars == <<workload, redisDbs, dbs, now, writer, readers, pc, call, loc, created, returned, hist>>

Procs == workload.procs
DbIds == workload.dbIds
KeyNames == workload.keys
DelArgs == SeqsUpTo(KeyNames \cup {NilKey}, workload.maxDel)

EmptyMap == [k \in {} |-> NilItem]

NoCall == [op |-> "none", db |-> 0, dbId |-> 0, key |-> NilKey,
           item |-> NilItem, deleteIfExpired |-> FALSE, keys |-> <<>>]

\* locals: i, c, the loop position, the sampled clock, the value returned;
\* entryKeys/entryExp remember the maps at lock acquisition and hooks the
\* OnDelete calls made so far in this call (history, for the postconditions)
NoLoc == [i |-> NilItem, c |-> 0, idx |-> 0, t |-> 0, key |-> NilKey,
          retItem |-> NilItem, retBool |-> FALSE, retDb |-> 0, retKeys |-> EmptyMap,
          entryKeys |-> EmptyMap, entryExp |-> EmptyMap, hooks |-> <<>>]

NoHist == [hooks |-> 0, counted |-> 0]

\* hist after the step f of a method on database db and key k
Record(db, k, f) ==
  IF workload.history
    THEN [hist EXCEPT ![dbs[db].id][k] =
            IF f = "Set" THEN NoHist
            ELSE IF f = "OnDelete" THEN [@ EXCEPT !.hooks = @ + 1]
            ELSE [@ EXCEPT !.counted = @ + 1]]
    ELSE hist

\* ------------------------------------------------------------- helpers
\* delete(m, k) of Go
MapDelete(m, k) == [x \in (DOMAIN m) \ {k} |-> m[x]]
\* m[k] = v of Go
MapPut(m, k, v) == [x \in (DOMAIN m) \cup {k} |-> IF x = k THEN v ELSE m[x]]

NewRedisDb(id) == [id |-> id, keys |-> EmptyMap, expiringKeys |-> EmptyMap]

\* getDb closure of Redis.RedisDb: 0 is the nil *RedisDb
getDb(dbId) == IF dbId \in DOMAIN redisDbs THEN redisDbs[dbId] ELSE 0

get(db, key) == IF key \in DOMAIN dbs[db].keys THEN dbs[db].keys[key] ELSE NilItem
exists(db, key) == key \in DOMAIN dbs[db].keys
Expires(db, key) == key \in DOMAIN dbs[db].expiringKeys
\* variant: the length of the wrong map
IsEmpty_OfExpiring(db) == Cardinality(DOMAIN dbs[db].expiringKeys) = 0
IsEmpty(db) == Cardinality(DOMAIN dbs[db].keys) = 0
IsEmptyExpire(db) == Cardinality(DOMAIN dbs[db].expiringKeys) = 0
Keys(db) == dbs[db].keys
ExpiringKeys(db) == dbs[db].expiringKeys

\* variant: the comparison the wrong way round
Expired_Reversed(expireAt, t) == expireAt > t
Expired(expireAt, t) == t > expireAt
\* variant: Expires() is not consulted
ItemExpired_IgnoresFlag(i, t) == Expired(i.expiry, t)
ItemExpired(i, t) == i.expires /\ Expired(i.expiry, t)

\* sync.RWMutex. Lock() first takes the writers' mutex and announces itself
\* to the readers, then waits for the readers inside to leave: from the
\* announcement on, RLock() waits for that writer to have come and gone.
PendingPcs == {"Lock_pending", "RedisDb_pending"}
Pending == { q \in Procs : pc[q] \in PendingPcs }

\* variant: readers keep coming in past a waiting writer
CanRLock_NoWriterPreference == writer = NoProc
CanRLock == writer = NoProc /\ Pending = {}
\* variant: Lock does not wait for the readers to leave
CanLock_IgnoresReaders == writer = NoProc
CanLock == writer = NoProc /\ readers = {}
\* p gets the lock in exclusive mode: no other writer is ahead of it
MayLock(p) == CanLock /\ Pending \subseteq {p}
\* Unlock() lets in, at once, every reader that waits in RLock()
Blocked == { q \in Procs : pc[q] = "RLock_wait" }
Released(p) ==
  [q \in Procs |-> IF q = p THEN "idle"
                   ELSE IF q \in Blocked THEN "RLock_granted" ELSE pc[q]]

Handles == 1..Len(dbs)

Start(w) ==
  /\ workload = w
  /\ redisDbs = [d \in {} |-> 0]
  /\ dbs = <<>>
  /\ now = 0
  /\ writer = NoProc
  /\ readers = {}
  /\ pc = [p \in Procs |-> "idle"]
  /\ call = [p \in Procs |-> NoCall]
  /\ loc = [p \in Procs |-> NoLoc]
  /\ created = [d \in DbIds |-> 0]
  /\ returned = [d \in DbIds |-> {}]
  /\ hist = [d \in DbIds |-> [k \in KeyNames |-> NoHist]]

Init == Start(DbWorkload)
InitReg == Start(RegWorkload)
InitSmall == Start(SmallWorkload)
InitLive == Start(LiveWorkload)

\* variant: an active sweep, the clock evicts what has expired
Tick_Sweeps ==
  /\ now < MaxTime
  /\ now' = now + 1
  /\ dbs' = [d \in DOMAIN dbs |->
               [dbs[d] EXCEPT
                  !.keys = [k \in { x \in DOMAIN dbs[d].keys :
                                      ~(dbs[d].keys[x].expires /\ now' > dbs[d].keys[x].expiry) }
                              |-> dbs[d].keys[k]]]]
  /\ UNCHANGED <<workload, hist, redisDbs, writer, readers, pc, call, loc, created, returned>>

\* the clock advances on its own
Tick ==
  /\ now < MaxTime
  /\ now' = now + 1
  /\ UNCHANGED <<workload, hist, redisDbs, dbs, writer, readers, pc, call, loc, created, returned>>

\* ------------------------------------------------- steps shared by methods
\* a call that starts with Mu().RLock()
RLockCall(p, c, next) ==
  /\ \/ pc[p] = "idle" /\ CanRLock
     \/ pc[p] = "RLock_granted"
  /\ readers' = readers \cup {p}
  /\ pc' = [pc EXCEPT ![p] = next]
  /\ call' = [call EXCEPT ![p] = c]
  /\ UNCHANGED <<workload, hist, redisDbs, dbs, now, writer, loc, created, returned>>

\* a call that starts with Mu().Lock(); the maps of the database are
\* remembered in entryKeys/entryExp
LockCall(p, c, next) ==
  /\ pc[p] \in {"idle", "Lock_pending"}
  /\ MayLock(p)
  /\ writer' = p
  /\ pc' = [pc EXCEPT ![p] = next]
  /\ call' = [call EXCEPT ![p] = c]
  /\ loc' = [loc EXCEPT ![p] = [NoLoc EXCEPT !.entryKeys = dbs[c.db].keys,
                                            !.entryExp = dbs[c.db].expiringKeys]]
  /\ UNCHANGED <<workload, hist, redisDbs, dbs, now, readers, created, returned>>

\* the body of a read-only method: only the return value is computed
ReadBody(p, at, next, l) ==
  /\ pc[p] = at
  /\ pc' = [pc EXCEPT ![p] = next]
  /\ loc' = [loc EXCEPT ![p] = l]
  /\ UNCHANGED <<workload, hist, redisDbs, dbs, now, writer, readers, call, created, returned>>

\* defer Mu().RUnlock() and return
RUnlockReturn(p, at) ==
  /\ pc[p] = at
  /\ readers' = readers \ {p}
  /\ pc' = [pc EXCEPT ![p] = "idle"]
  /\ call' = [call EXCEPT ![p] = NoCall]
  /\ loc' = [loc EXCEPT ![p] = NoLoc]
  /\ UNCHANGED <<workload, hist, redisDbs, dbs, now, writer, created, returned>>

\* defer Mu().Unlock() and return
UnlockReturn(p, at) ==
  /\ pc[p] = at
  /\ writer = p
  /\ writer' = NoProc
  /\ readers' = Blocked
  /\ pc' = Released(p)
  /\ call' = [call EXCEPT ![p] = NoCall]
  /\ loc' = [loc EXCEPT ![p] = NoLoc]
  /\ UNCHANGED <<workload, hist, redisDbs, dbs, now, created, returned>>

\* ------------------------------------------------------- Redis.RedisDb
RedisDb_RLock(p) ==
  \E id \in DbIds :
    RLockCall(p, [NoCall EXCEPT !.op = "RedisDb", !.dbId = id], "RedisDb_probe")

\* variant: no fast path, every caller goes on to the exclusive lock
RedisDb_Probe_NoFastPath(p) ==
  /\ pc[p] = "RedisDb_probe"
  /\ readers' = readers \ {p}
  /\ pc' = [pc EXCEPT ![p] = "RedisDb_miss"]
  /\ UNCHANGED <<workload, hist, redisDbs, dbs, now, writer, call, loc, created, returned>>

\* db := getDb(); RUnlock(); if db != nil { return db }
RedisDb_Probe(p) ==
  /\ pc[p] = "RedisDb_probe"
  /\ readers' = readers \ {p}
  /\ LET db == getDb(call[p].dbId) IN
       IF db # 0
         THEN /\ pc' = [pc EXCEPT ![p] = "idle"]
              /\ call' = [call EXCEPT ![p] = NoCall]
              /\ returned' = [returned EXCEPT ![call[p].dbId] = @ \cup {db}]
         ELSE /\ pc' = [pc EXCEPT ![p] = "RedisDb_miss"]
              /\ UNCHANGED <<call, returned>>
  /\ UNCHANGED <<workload, hist, redisDbs, dbs, now, writer, loc, created>>

RedisDb_Lock(p) ==
  /\ pc[p] \in {"RedisDb_miss", "RedisDb_pending"}
  /\ MayLock(p)
  /\ writer' = p
  /\ pc' = [pc EXCEPT ![p] = "RedisDb_create"]
  /\ UNCHANGED <<workload, hist, redisDbs, dbs, now, readers, call, loc, created, returned>>

\* variant: no second probe, the caller always goes on to create
SecondProbe_Skipped(dbId) == 0

\* the second probe under the exclusive lock
SecondProbe(dbId) == getDb(dbId)

\* db = getDb(); if db != nil { return db }
\* r.redisDbs[dbId] = NewRedisDb(dbId, r); return r.redisDbs[dbId]
RedisDb_Create(p) ==
  /\ pc[p] = "RedisDb_create"
  /\ LET id == call[p].dbId
         db == SecondProbe(id) IN
       IF db # 0
         THEN /\ loc' = [loc EXCEPT ![p].retDb = db]
              /\ UNCHANGED <<redisDbs, dbs, created>>
         ELSE /\ dbs' = Append(dbs, NewRedisDb(id))
              /\ redisDbs' = [x \in (DOMAIN redisDbs) \cup {id} |->
                                IF x = id THEN Len(dbs) + 1 ELSE redisDbs[x]]
              /\ created' = [created EXCEPT ![id] = @ + 1]
              /\ loc' = [loc EXCEPT ![p].retDb = redisDbs'[id]]
  /\ pc' = [pc EXCEPT ![p] = "RedisDb_unlock"]
  /\ UNCHANGED <<workload, hist, now, writer, readers, call, returned>>

RedisDb_Unlock(p) ==
  /\ pc[p] = "RedisDb_unlock"
  /\ writer = p
  /\ writer' = NoProc
  /\ returned' = [returned EXCEPT ![call[p].dbId] = @ \cup {loc[p].retDb}]
  /\ readers' = Blocked
  /\ pc' = Released(p)
  /\ call' = [call EXCEPT ![p] = NoCall]
  /\ loc' = [loc EXCEPT ![p] = NoLoc]
  /\ UNCHANGED <<workload, hist, redisDbs, dbs, now, created>>

\* ------------------------------------------------------ Redis.RedisDbs
RedisDbs_RLock(p) ==
  RLockCall(p, [NoCall EXCEPT !.op = "RedisDbs"], "RedisDbs_body")
RedisDbs_Body(p) ==
  ReadBody(p, "RedisDbs_body", "RedisDbs_unlock", [NoLoc EXCEPT !.retBool = TRUE])
RedisDbs_Unlock(p) == RUnlockReturn(p, "RedisDbs_unlock")

\* ------------------------------------------ IsEmpty, IsEmptyExpire, Keys
IsEmpty_RLock(p) ==
  \E d \in Handles :
    RLockCall(p, [NoCall EXCEPT !.op = "IsEmpty", !.db = d], "IsEmpty_body")
IsEmpty_Body(p) ==
  ReadBody(p, "IsEmpty_body", "IsEmpty_unlock",
           [NoLoc EXCEPT !.retBool = IsEmpty(call[p].db)])
IsEmpty_Unlock(p) == RUnlockReturn(p, "IsEmpty_unlock")

IsEmptyExpire_RLock(p) ==
  \E d \in Handles :
    RLockCall(p, [NoCall EXCEPT !.op = "IsEmptyExpire", !.db = d], "IsEmptyExpire_body")
IsEmptyExpire_Body(p) ==
  ReadBody(p, "IsEmptyExpire_body", "IsEmptyExpire_unlock",
           [NoLoc EXCEPT !.retBool = IsEmptyExpire(call[p].db)])
IsEmptyExpire_Unlock(p) == RUnlockReturn(p, "IsEmptyExpire_unlock")

Keys_RLock(p) ==
  \E d \in Handles :
    RLockCall(p, [NoCall EXCEPT !.op = "Keys", !.db = d], "Keys_body")
Keys_Body(p) ==
  ReadBody(p, "Keys_body", "Keys_unlock", [NoLoc EXCEPT !.retKeys = Keys(call[p].db)])
Keys_Unlock(p) == RUnlockReturn(p, "Keys_unlock")

ExpiringKeys_RLock(p) ==
  \E d \in Handles :
    RLockCall(p, [NoCall EXCEPT !.op = "ExpiringKeys", !.db = d], "ExpiringKeys_body")
ExpiringKeys_Body(p) ==
  ReadBody(p, "ExpiringKeys_body", "ExpiringKeys_unlock",
           [NoLoc EXCEPT !.retKeys = ExpiringKeys(call[p].db)])
ExpiringKeys_Unlock(p) == RUnlockReturn(p, "ExpiringKeys_unlock")

\* ------------------------------------------------- Get, Exists, Expires
Get_RLock(p) ==
  \E d \in Handles, k \in KeyNames :
    RLockCall(p, [NoCall EXCEPT !.op = "Get", !.db = d, !.key = k], "Get_body")
Get_Body(p) ==
  ReadBody(p, "Get_body", "Get_unlock",
           [NoLoc EXCEPT !.retItem = get(call[p].db, call[p].key)])
Get_Unlock(p) == RUnlockReturn(p, "Get_unlock")

Exists_RLock(p) ==
  \E d \in Handles, k \in KeyNames :
    RLockCall(p, [NoCall EXCEPT !.op = "Exists", !.db = d, !.key = k], "Exists_body")
Exists_Body(p) ==
  ReadBody(p, "Exists_body", "Exists_unlock",
           [NoLoc EXCEPT !.retBool = exists(call[p].db, call[p].key)])
Exists_Unlock(p) == RUnlockReturn(p, "Exists_unlock")

Expires_RLock(p) ==
  \E d \in Handles, k \in KeyNames :
    RLockCall(p, [NoCall EXCEPT !.op = "Expires", !.db = d, !.key = k], "Expires_body")
Expires_Body(p) ==
  ReadBody(p, "Expires_body", "Expires_unlock",
           [NoLoc EXCEPT !.retBool = Expires(call[p].db, call[p].key)])
Expires_Unlock(p) == RUnlockReturn(p, "Expires_unlock")

\* ---------------------------------------------------------- RedisDb.Set
\* variant: a non-expiring item takes the key out of expiringKeys
SetDb_Retracts(d, key, i) ==
  [d EXCEPT !.keys = MapPut(d.keys, key, i),
            !.expiringKeys = IF i.expires THEN MapPut(d.expiringKeys, key, i)
                             ELSE MapDelete(d.expiringKeys, key)]

\* variant: an entry already in expiringKeys is not overwritten
SetDb_KeepIndexed(d, key, i) ==
  [d EXCEPT !.keys = MapPut(d.keys, key, i),
            !.expiringKeys = IF i.expires /\ key \notin DOMAIN d.expiringKeys
                               THEN MapPut(d.expiringKeys, key, i)
                               ELSE d.expiringKeys]

\* variant: a key already in keys is not overwritten
SetDb_IfAbsent(d, key, i) ==
  IF key \in DOMAIN d.keys THEN d
  ELSE [d EXCEPT !.keys = MapPut(d.keys, key, i),
                 !.expiringKeys = IF i.expires THEN MapPut(d.expiringKeys, key, i)
                                  ELSE d.expiringKeys]

\* db.keys[*key] = i; if i.Expires() { db.expiringKeys[*key] = i }
SetDb(d, key, i) ==
  [d EXCEPT !.keys = MapPut(d.keys, key, i),
            !.expiringKeys = IF i.expires THEN MapPut(d.expiringKeys, key, i)
                             ELSE d.expiringKeys]

Set_Lock(p) ==
  \E d \in Handles, k \in KeyNames, i \in workload.items :
    LockCall(p, [NoCall EXCEPT !.op = "Set", !.db = d, !.key = k, !.item = i], "Set_body")

\* variant: Set runs the hook of the item it displaces
Set_Body_HooksOld(p) ==
  /\ pc[p] = "Set_body"
  /\ dbs' = [dbs EXCEPT ![call[p].db] = SetDb(@, call[p].key, call[p].item)]
  /\ loc' = IF exists(call[p].db, call[p].key)
              THEN [loc EXCEPT ![p].hooks =
                      Append(@, [item |-> get(call[p].db, call[p].key),
                                 key |-> call[p].key, db |-> call[p].db])]
              ELSE loc
  /\ pc' = [pc EXCEPT ![p] = "Set_unlock"]
  /\ UNCHANGED <<workload, hist, redisDbs, now, writer, readers, call, created, returned>>

Set_Body(p) ==
  /\ pc[p] = "Set_body"
  /\ dbs' = [dbs EXCEPT ![call[p].db] = SetDb(@, call[p].key, call[p].item)]
  /\ pc' = [pc EXCEPT ![p] = "Set_unlock"]
  /\ hist' = Record(call[p].db, call[p].key, "Set")
  /\ UNCHANGED <<workload, redisDbs, now, writer, readers, call, loc, created, returned>>

Set_Unlock(p) == UnlockReturn(p, "Set_unlock")

\* ------------------------------------------------------- RedisDb.delete
\* variant: the key is removed from expiringKeys only and stays in keys
deleteDb_ExpiringOnly(d, key) == [d EXCEPT !.expiringKeys = MapDelete(d.expiringKeys, key)]

\* variant: the key is removed from keys only
deleteDb_KeysOnly(d, key) == [d EXCEPT !.keys = MapDelete(d.keys, key)]

\* delete(db.keys, *key); delete(db.expiringKeys, *key)
deleteDb(d, key) ==
  [d EXCEPT !.keys = MapDelete(d.keys, key),
            !.expiringKeys = MapDelete(d.expiringKeys, key)]

\* variant: no check that the key is there
deleteFinds_Always(db, key) == TRUE

\* i := db.get(key); if i == nil { return false }: does delete go on to the hook
deleteFinds(db, key) == get(db, key) # NilItem

\* variant: the key is taken out of the maps before the hook is called
delete_OnDelete_AfterRemoval(p) ==
  /\ pc[p] = "delete_OnDelete"
  /\ dbs' = [dbs EXCEPT ![call[p].db] =
               [@ EXCEPT !.keys = MapDelete(@, loc[p].key),
                         !.expiringKeys = MapDelete(@, loc[p].key)]]
  /\ loc' = [loc EXCEPT ![p].hooks =
               Append(@, [item |-> loc[p].i, key |-> loc[p].key, db |-> call[p].db])]
  /\ pc' = [pc EXCEPT ![p] = "delete_remove"]
  /\ UNCHANGED <<workload, hist, redisDbs, now, writer, readers, call, created, returned>>

\* variant: the hook is not called
delete_OnDelete_Skipped(p) ==
  /\ pc[p] = "delete_OnDelete"
  /\ pc' = [pc EXCEPT ![p] = "delete_remove"]
  /\ UNCHANGED <<workload, hist, redisDbs, dbs, now, writer, readers, call, loc, created, returned>>

\* i.OnDelete(key, db): the hook of the stored item runs, the maps untouched
delete_OnDelete(p) ==
  /\ pc[p] = "delete_OnDelete"
  /\ loc' = [loc EXCEPT ![p].hooks =
               Append(@, [item |-> loc[p].i, key |-> loc[p].key, db |-> call[p].db])]
  /\ pc' = [pc EXCEPT ![p] = "delete_remove"]
  /\ hist' = Record(call[p].db, loc[p].key, "OnDelete")
  /\ UNCHANGED <<workload, redisDbs, dbs, now, writer, readers, call, created, returned>>

\* the two delete() statements and return true, back in the caller:
\* Delete counts the key and moves on, GetOrExpired returns nil
delete_Remove(p) ==
  /\ pc[p] = "delete_remove"
  /\ dbs' = [dbs EXCEPT ![call[p].db] = deleteDb(@, loc[p].key)]
  /\ IF call[p].op = "Delete"
       THEN /\ loc' = [loc EXCEPT ![p].c = @ + 1, ![p].idx = @ + 1]
            /\ pc' = [pc EXCEPT ![p] = "Delete_loop"]
            /\ hist' = Record(call[p].db, loc[p].key, "Delete")
       ELSE /\ loc' = [loc EXCEPT ![p].retItem = NilItem]
            /\ pc' = [pc EXCEPT ![p] = "GetOrExpired_unlock"]
            /\ UNCHANGED hist
  /\ UNCHANGED <<workload, redisDbs, now, writer, readers, call, created, returned>>

\* ------------------------------------------------------- RedisDb.Delete
Delete_Lock(p) ==
  \E d \in Handles, ks \in DelArgs :
    LockCall(p, [NoCall EXCEPT !.op = "Delete", !.db = d, !.keys = ks], "Delete_loop")

\* for _, k := range keys { if k != nil && db.delete(k) { c++ } }; return c
\* loc.idx keys have been handled so far
Delete_Loop(p) ==
  /\ pc[p] = "Delete_loop"
  /\ IF loc[p].idx >= Len(call[p].keys)
       THEN /\ pc' = [pc EXCEPT ![p] = "Delete_unlock"]
            /\ UNCHANGED loc
       ELSE LET k == call[p].keys[loc[p].idx + 1] IN
              IF k # NilKey /\ deleteFinds(call[p].db, k)
                THEN /\ loc' = [loc EXCEPT ![p].i = get(call[p].db, k), ![p].key = k]
                     /\ pc' = [pc EXCEPT ![p] = "delete_OnDelete"]
                ELSE /\ loc' = [loc EXCEPT ![p].idx = @ + 1]
                     /\ UNCHANGED pc
  /\ UNCHANGED <<workload, hist, redisDbs, dbs, now, writer, readers, call, created, returned>>

Delete_Unlock(p) == UnlockReturn(p, "Delete_unlock")

\* ------------------------------------------------- RedisDb.GetOrExpired
GetOrExpired_Lock(p) ==
  \E d \in Handles, k \in KeyNames, del \in BOOLEAN :
    LockCall(p, [NoCall EXCEPT !.op = "GetOrExpired", !.db = d, !.key = k,
                               !.deleteIfExpired = del], "GetOrExpired_body")

\* i, ok := db.keys[*key]; if !ok { return nil }
\* if ItemExpired(i) { if deleteIfExpired { db.delete(key) }; return nil }
\* return i
GetOrExpired_Body(p) ==
  /\ pc[p] = "GetOrExpired_body"
  /\ LET db == call[p].db
         key == call[p].key
         i == get(db, key) IN
       IF ~exists(db, key)
         THEN /\ loc' = [loc EXCEPT ![p].retItem = NilItem]
              /\ pc' = [pc EXCEPT ![p] = "GetOrExpired_unlock"]
         ELSE IF ItemExpired(i, now)
           THEN IF call[p].deleteIfExpired /\ deleteFinds(db, key)
                  THEN /\ loc' = [loc EXCEPT ![p].i = i, ![p].key = key, ![p].t = now]
                       /\ pc' = [pc EXCEPT ![p] = "delete_OnDelete"]
                  ELSE /\ loc' = [loc EXCEPT ![p].i = i, ![p].t = now,
                                             ![p].retItem = NilItem]
                       /\ pc' = [pc EXCEPT ![p] = "GetOrExpired_unlock"]
           ELSE /\ loc' = [loc EXCEPT ![p].i = i, ![p].t = now, ![p].retItem = i]
                /\ pc' = [pc EXCEPT ![p] = "GetOrExpired_unlock"]
  /\ UNCHANGED <<workload, hist, redisDbs, dbs, now, writer, readers, call, created, returned>>

GetOrExpired_Unlock(p) == UnlockReturn(p, "GetOrExpired_unlock")

\* ------------------------------------------- a hook that takes the lock
\* i.OnDelete(key, db) is code of the item. The steps below are those of a
\* hook that calls a method of a database of this registry: the method's
\* first statement is Mu().Lock() (Set, Delete, GetOrExpired) or
\* Mu().RLock() (the read-only methods, and RedisDb(id) at its first probe)
\* on the RWMutex the caller of delete already holds in exclusive mode.
OnDelete_Reenters(p) ==
  /\ pc[p] = "delete_OnDelete"
  /\ \E m \in {"OnDelete_Lock", "OnDelete_RLock"} : pc' = [pc EXCEPT ![p] = m]
  /\ UNCHANGED <<workload, hist, redisDbs, dbs, now, writer, readers, call, loc, created, returned>>

\* variant: a mutex its holder may take again
NestedCanAcquire_Reentrant(p) == writer \in {NoProc, p}

\* sync.RWMutex has no owner: the nested Lock()/RLock() waits like any other
NestedCanAcquire(p) == IF pc[p] = "OnDelete_Lock" THEN CanLock ELSE CanRLock

\* the nested call gets the lock, runs, unlocks and returns into the hook,
\* which returns into delete
OnDelete_Acquire(p) ==
  /\ pc[p] \in {"OnDelete_Lock", "OnDelete_RLock"}
  /\ NestedCanAcquire(p)
  /\ writer' = IF pc[p] = "OnDelete_Lock" THEN NoProc ELSE writer
  /\ loc' = [loc EXCEPT ![p].hooks =
               Append(@, [item |-> loc[p].i, key |-> loc[p].key, db |-> call[p].db])]
  /\ pc' = [pc EXCEPT ![p] = "delete_remove"]
  /\ hist' = Record(call[p].db, loc[p].key, "OnDelete")
  /\ UNCHANGED <<workload, redisDbs, dbs, now, readers, call, created, returned>>

\* --------------------------------------------- a call that has to wait
\* A method called while the lock is not to be had: the goroutine sits in
\* Mu().RLock() or Mu().Lock() until <Op>_RLock / <Op>_Lock can take place.
\* Which method it is, and with what arguments, plays no part until then.
Call_RLock(p) ==
  /\ pc[p] = "idle"
  /\ ~CanRLock
  /\ pc' = [pc EXCEPT ![p] = "RLock_wait"]
  /\ UNCHANGED <<workload, hist, redisDbs, dbs, now, writer, readers, call, loc, created, returned>>

\* Lock() is taken at once by Set, Delete and GetOrExpired only: methods
\* of a RedisDb, which has to exist
Call_Lock(p) ==
  /\ pc[p] = "idle"
  /\ Handles # {}
  /\ pc' = [pc EXCEPT ![p] = "Lock_wait"]
  /\ UNCHANGED <<workload, hist, redisDbs, dbs, now, writer, readers, call, loc, created, returned>>

\* Lock(): p has the writers' mutex (no writer inside, none announced) and
\* announces itself; RedisDb() gets here after the miss of its first probe
Lock_Announce(p) ==
  /\ pc[p] \in {"Lock_wait", "RedisDb_miss"}
  /\ writer = NoProc /\ Pending = {}
  /\ pc' = [pc EXCEPT ![p] = IF pc[p] = "Lock_wait" THEN "Lock_pending" ELSE "RedisDb_pending"]
  /\ UNCHANGED <<workload, hist, redisDbs, dbs, now, writer, readers, call, loc, created, returned>>

\* ------------------------------------------------------------ the system
\* one step of goroutine p in the method it is in, or into a method whose
\* lock it can take at once
ProcNext(p) ==
  \/ RedisDb_RLock(p) \/ RedisDb_Probe(p) \/ RedisDb_Lock(p)
  \/ RedisDb_Create(p) \/ RedisDb_Unlock(p)
  \/ RedisDbs_RLock(p) \/ RedisDbs_Body(p) \/ RedisDbs_Unlock(p)
  \/ IsEmpty_RLock(p) \/ IsEmpty_Body(p) \/ IsEmpty_Unlock(p)
  \/ IsEmptyExpire_RLock(p) \/ IsEmptyExpire_Body(p) \/ IsEmptyExpire_Unlock(p)
  \/ Keys_RLock(p) \/ Keys_Body(p) \/ Keys_Unlock(p)
  \/ ExpiringKeys_RLock(p) \/ ExpiringKeys_Body(p) \/ ExpiringKeys_Unlock(p)
  \/ Get_RLock(p) \/ Get_Body(p) \/ Get_Unlock(p)
  \/ Exists_RLock(p) \/ Exists_Body(p) \/ Exists_Unlock(p)
  \/ Expires_RLock(p) \/ Expires_Body(p) \/ Expires_Unlock(p)
  \/ Set_Lock(p) \/ Set_Body(p) \/ Set_Unlock(p)
  \/ Delete_Lock(p) \/ Delete_Loop(p) \/ Delete_Unlock(p)
  \/ delete_OnDelete(p) \/ delete_Remove(p)
  \/ GetOrExpired_Lock(p) \/ GetOrExpired_Body(p) \/ GetOrExpired_Unlock(p)

Next ==
  \/ Tick
  \/ \E p \in Procs : ProcNext(p)

Spec == Init /\ [][Next]_vars
SpecReg == InitReg /\ [][Next]_vars
SpecHist == InitSmall /\ [][Next]_vars

\* the system when hooks may call back into the package
NextHook ==
  \/ Next
  \/ \E p \in Procs : OnDelete_Reenters(p) \/ OnDelete_Acquire(p)

SpecHook == InitSmall /\ [][NextHook]_vars

\* the system with the calls that wait for the lock. The Go scheduler runs
\* every goroutine that can run, and nothing obliges an idle goroutine to
\* call: a goroutine inside a method takes the step that stays possible
\* (WF). Lock() queues on the writers' sync.Mutex, which other writers may
\* overtake a few times but which then hands itself to the waiting one:
\* the announcement that is possible again and again takes place (SF).
LiveNext(p) == ProcNext(p) \/ Call_RLock(p) \/ Call_Lock(p) \/ Lock_Announce(p)
NextLive ==
  \/ Tick
  \/ \E p \in Procs : LiveNext(p)

Fairness ==
  \A p \in LiveProcs :
    /\ WF_vars(pc[p] # "idle" /\ ProcNext(p))
    /\ SF_vars(Lock_Announce(p))
SpecLive == InitLive /\ [][NextLive]_vars /\ Fairness

\* ================================================================ claims
AtUnlock(p, op) == pc[p] = op \o "_unlock" /\ call[p].op = op
DbOf(p) == dbs[call[p].db]
Unchanged(p) == DbOf(p).keys = loc[p].entryKeys /\ DbOf(p).expiringKeys = loc[p].entryExp
Range(s) == { s[n] : n \in 1..Len(s) }

\* C1: every RedisDb(id) call returns the one database the registry holds
\* for id, and NewRedisDb is run at most once per id.
C1_OneInstancePerId ==
  \A id \in DbIds :
    /\ created[id] <= 1
    /\ Cardinality({ d \in Handles : dbs[d].id = id }) <= 1
    /\ (id \in DOMAIN redisDbs) <=> (created[id] = 1)
    /\ id \in DOMAIN redisDbs => redisDbs[id] \in Handles /\ dbs[redisDbs[id]].id = id
    /\ returned[id] \subseteq { getDb(id) } \ {0}
    /\ \A p \in Procs :
         pc[p] = "RedisDb_unlock" /\ call[p].dbId = id => loc[p].retDb = getDb(id) /\ getDb(id) # 0

\* a caller that missed on its first probe is about to return the database
\* another caller created and has already returned
C1_Witness ==
  \E p \in Procs :
    /\ pc[p] = "RedisDb_unlock"
    /\ returned[call[p].dbId] # {}
    /\ loc[p].retDb \in returned[call[p].dbId]

\* C2: the keys of expiringKeys are a subset of the keys of keys.
C2_ExpiringSubsetOfKeys ==
  \A d \in Handles : DOMAIN dbs[d].expiringKeys \subseteq DOMAIN dbs[d].keys

\* a Delete has just removed one expiring key and left another one
C2_Witness ==
  \E p \in Procs :
    /\ AtUnlock(p, "Delete")
    /\ DOMAIN DbOf(p).expiringKeys # {}
    /\ DOMAIN DbOf(p).expiringKeys # DOMAIN loc[p].entryExp

\* C3: k is in expiringKeys iff k is in keys and the item last written to k
\* (the one keys holds for k) has Expires() true.
C3_ExpiringIffLastWrittenExpires ==
  \A d \in Handles : \A k \in KeyNames :
    Expires(d, k) <=> (exists(d, k) /\ get(d, k).expires)

\* C4: right after Set(k, v) with v.Expires() false, Expires(k) is false.
C4_SetNonExpiringClearsExpires ==
  \A p \in Procs :
    AtUnlock(p, "Set") /\ ~call[p].item.expires => ~Expires(call[p].db, call[p].key)

\* C5: right after Set(k, v) with v.Expires() true, Expires(k) is true and
\* ExpiringKeys() maps k to v.
C5_SetExpiringIndexes ==
  \A p \in Procs :
    AtUnlock(p, "Set") /\ call[p].item.expires =>
      /\ Expires(call[p].db, call[p].key)
      /\ ExpiringKeys(call[p].db)[call[p].key] = call[p].item

\* k held another expiring item when this Set began
C5_Witness ==
  \E p \in Procs :
    /\ AtUnlock(p, "Set") /\ call[p].item.expires
    /\ call[p].key \in DOMAIN loc[p].entryExp
    /\ loc[p].entryExp[call[p].key] # call[p].item
    /\ ExpiringKeys(call[p].db)[call[p].key] = call[p].item

\* C6: right after Set(k, v), Get(k) is v and Exists(k) is true, whatever k
\* held before.
C6_SetThenGet ==
  \A p \in Procs :
    AtUnlock(p, "Set") =>
      /\ get(call[p].db, call[p].key) = call[p].item
      /\ exists(call[p].db, call[p].key)

\* k held a different item when this Set began
C6_Witness ==
  \E p \in Procs :
    /\ AtUnlock(p, "Set")
    /\ call[p].key \in DOMAIN loc[p].entryKeys
    /\ loc[p].entryKeys[call[p].key] # call[p].item
    /\ get(call[p].db, call[p].key) = call[p].item

HookOf(p, k) == [item |-> loc[p].entryKeys[k], key |-> k, db |-> call[p].db]

\* C7: Delete(k) of a present key returns 1, runs OnDelete of the stored
\* item exactly once, and leaves k in neither map; k comes back into a map
\* only through a Set of k.
C7_DeletePresentKey ==
  /\ [] \A p \in Procs : \A k \in KeyNames :
          AtUnlock(p, "Delete") /\ call[p].keys = <<k>> /\ k \in DOMAIN loc[p].entryKeys =>
            /\ loc[p].c = 1
            /\ loc[p].hooks = << HookOf(p, k) >>
            /\ ~exists(call[p].db, k)
            /\ ~Expires(call[p].db, k)
  /\ [][ \A d \in Handles : \A k \in KeyNames :
           (~exists(d, k) /\ ~Expires(d, k)) /\ (exists(d, k) \/ Expires(d, k))' =>
             \E p \in Procs : pc[p] = "Set_body" /\ call[p].db = d /\ call[p].key = k ]_vars

\* Delete(k) has removed a key that was in both maps
C7_Witness ==
  \E p \in Procs : \E k \in KeyNames :
    /\ AtUnlock(p, "Delete") /\ call[p].keys = <<k>>
    /\ k \in DOMAIN loc[p].entryKeys /\ k \in DOMAIN loc[p].entryExp
    /\ loc[p].c = 1 /\ ~exists(call[p].db, k)

\* the distinct non-nil arguments of this Delete that were present on entry
PresentArgs(p) == (Range(call[p].keys) \ {NilKey}) \cap DOMAIN loc[p].entryKeys

\* C8: Delete(k1..kn) returns the number of distinct arguments present on
\* entry; those and only those get their hook (once each) and are removed;
\* absent and nil arguments are skipped; every other key keeps its entries.
C8_DeleteCountsPresentKeys ==
  \A p \in Procs :
    AtUnlock(p, "Delete") =>
      /\ loc[p].c = Cardinality(PresentArgs(p))
      /\ Len(loc[p].hooks) = loc[p].c
      /\ { loc[p].hooks[n] : n \in 1..Len(loc[p].hooks) } = { HookOf(p, k) : k \in PresentArgs(p) }
      /\ DOMAIN DbOf(p).keys = (DOMAIN loc[p].entryKeys) \ PresentArgs(p)
      /\ DOMAIN DbOf(p).expiringKeys = (DOMAIN loc[p].entryExp) \ PresentArgs(p)
      /\ \A k \in DOMAIN DbOf(p).keys : DbOf(p).keys[k] = loc[p].entryKeys[k]
      /\ \A k \in DOMAIN DbOf(p).expiringKeys : DbOf(p).expiringKeys[k] = loc[p].entryExp[k]

\* one call given a nil key and a present key: the present one is counted
\* and removed, the other key of the database keeps its item
C8_Witness ==
  \E p \in Procs :
    /\ AtUnlock(p, "Delete")
    /\ NilKey \in Range(call[p].keys)
    /\ PresentArgs(p) # {}
    /\ loc[p].c = 1
    /\ DOMAIN DbOf(p).keys # {}
    /\ DOMAIN DbOf(p).keys \cap Range(call[p].keys) = {}

\* the item GetOrExpired found under the key, when the key was present
Found(p) == loc[p].entryKeys[call[p].key]
WasExpired(p) == Found(p).expires /\ Found(p).expiry < loc[p].t

\* C9: for a present key whose item expires and whose expiry is strictly
\* before the clock read, GetOrExpired(k, true) returns nil, runs the hook
\* and removes k from both maps; GetOrExpired(k, false) returns nil, runs no
\* hook and changes nothing.
C9_GetOrExpiredOnExpired ==
  \A p \in Procs :
    AtUnlock(p, "GetOrExpired") /\ call[p].key \in DOMAIN loc[p].entryKeys /\ WasExpired(p) =>
      /\ loc[p].retItem = NilItem
      /\ call[p].deleteIfExpired =>
           /\ loc[p].hooks = << HookOf(p, call[p].key) >>
           /\ ~exists(call[p].db, call[p].key)
           /\ ~Expires(call[p].db, call[p].key)
      /\ ~call[p].deleteIfExpired =>
           /\ loc[p].hooks = <<>>
           /\ Unchanged(p)
           /\ exists(call[p].db, call[p].key)

\* an expired key has been evicted by GetOrExpired(k, true)
C9_Witness ==
  \E p \in Procs :
    /\ AtUnlock(p, "GetOrExpired") /\ call[p].deleteIfExpired
    /\ call[p].key \in DOMAIN loc[p].entryKeys /\ WasExpired(p)
    /\ ~exists(call[p].db, call[p].key)
    /\ Len(loc[p].hooks) = 1

\* C10: for a present key whose item does not expire, or whose expiry is
\* not before the clock read, GetOrExpired returns the item, runs no hook
\* and changes nothing; for an absent key it returns nil and changes nothing.
C10_GetOrExpiredOnLive ==
  \A p \in Procs :
    AtUnlock(p, "GetOrExpired") =>
      /\ call[p].key \in DOMAIN loc[p].entryKeys /\ ~WasExpired(p) =>
           loc[p].retItem = Found(p) /\ loc[p].hooks = <<>> /\ Unchanged(p)
      /\ call[p].key \notin DOMAIN loc[p].entryKeys =>
           loc[p].retItem = NilItem /\ loc[p].hooks = <<>> /\ Unchanged(p)

\* the item expires exactly at the clock read and is returned, with
\* deleteIfExpired set
C10_Witness ==
  \E p \in Procs :
    /\ AtUnlock(p, "GetOrExpired") /\ call[p].deleteIfExpired
    /\ call[p].key \in DOMAIN loc[p].entryKeys
    /\ Found(p).expires /\ Found(p).expiry = loc[p].t
    /\ loc[p].retItem = Found(p)

\* the step that takes key k out of a map of database d: delete, called by
\* a Delete naming k or by a GetOrExpired(k, true)
RemovalOf(d, k) ==
  \E p \in Procs :
    /\ pc[p] = "delete_remove" /\ call[p].db = d /\ loc[p].key = k
    /\ \/ call[p].op = "Delete" /\ k \in Range(call[p].keys)
       \/ call[p].op = "GetOrExpired" /\ call[p].deleteIfExpired /\ call[p].key = k

\* C11: lazy expiry. A step of the clock changes no database; Get, Exists
\* and Keys answer from keys alone, expired items included; a key leaves
\* keys or expiringKeys only in the removal step of a Delete naming it or
\* of a GetOrExpired(k, true).
C11_LazyExpiry ==
  /\ [][ now' # now => dbs' = dbs /\ redisDbs' = redisDbs ]_vars
  /\ [][ \A d \in Handles : \A k \in KeyNames :
           ( \/ exists(d, k) /\ ~exists(d, k)'
             \/ Expires(d, k) /\ ~Expires(d, k)' ) => RemovalOf(d, k) ]_vars
  /\ [] \A p \in Procs :
          /\ AtUnlock(p, "Get") => loc[p].retItem = get(call[p].db, call[p].key)
          /\ AtUnlock(p, "Exists") => loc[p].retBool = (call[p].key \in DOMAIN DbOf(p).keys)
          /\ AtUnlock(p, "Keys") => loc[p].retKeys = DbOf(p).keys

\* Get is returning an item whose expiry has passed
C11_Witness ==
  \E p \in Procs :
    /\ AtUnlock(p, "Get")
    /\ loc[p].retItem # NilItem
    /\ loc[p].retItem.expires /\ loc[p].retItem.expiry < now
    /\ call[p].key \in DOMAIN DbOf(p).expiringKeys

\* where a goroutine is between Lock() and Unlock(), RLock() and RUnlock()
ExclusivePcs ==
  { "RedisDb_create", "RedisDb_unlock", "Set_body", "Set_unlock",
    "Delete_loop", "Delete_unlock", "delete_OnDelete", "delete_remove",
    "OnDelete_Lock", "OnDelete_RLock",
    "GetOrExpired_body", "GetOrExpired_unlock" }
SharedPcs ==
  { "RedisDb_probe", "RedisDbs_body", "RedisDbs_unlock",
    "IsEmpty_body", "IsEmpty_unlock", "IsEmptyExpire_body", "IsEmptyExpire_unlock",
    "Keys_body", "Keys_unlock", "ExpiringKeys_body", "ExpiringKeys_unlock",
    "Get_body", "Get_unlock", "Exists_body", "Exists_unlock",
    "Expires_body", "Expires_unlock" }

\* C12: a goroutine in an exclusive critical section is alone in any
\* critical section, whatever databases the operations are on; the holders
\* of the lock are exactly the goroutines in critical sections.
C12_ExclusiveSectionsAlone ==
  /\ \A p \in Procs :
       /\ (pc[p] \in ExclusivePcs) <=> (writer = p)
       /\ (pc[p] \in SharedPcs) <=> (p \in readers)
  /\ \A p \in Procs : \A q \in Procs \ {p} :
       pc[p] \in ExclusivePcs => pc[q] \notin (ExclusivePcs \cup SharedPcs)

\* a Set on one database is under way while a RedisDb() that missed on its
\* first probe is held out of the create path of another database
C12_Witness ==
  \E p \in Procs : \E q \in Procs \ {p} :
    /\ pc[p] = "Set_body"
    /\ pc[q] = "RedisDb_miss"
    /\ dbs[call[p].db].id # call[q].dbId

\* the key delete is working on is still in keys, with the item it read
StillStored(p) ==
  /\ loc[p].i # NilItem
  /\ loc[p].key \in DOMAIN DbOf(p).keys
  /\ DbOf(p).keys[loc[p].key] = loc[p].i

\* C13: when OnDelete is about to run and when it has just returned, the
\* caller holds the exclusive lock and the key is still in keys with that
\* item; the hook was given that item's key and the database; by the time
\* the caller is at its unlock every hooked key is out of both maps.
C13_HookBeforeRemovalUnderLock ==
  \A p \in Procs :
    /\ pc[p] = "delete_OnDelete" => writer = p /\ StillStored(p)
    /\ pc[p] = "delete_remove" =>
         /\ writer = p /\ StillStored(p)
         /\ Len(loc[p].hooks) >= 1
         /\ loc[p].hooks[Len(loc[p].hooks)] =
              [item |-> loc[p].i, key |-> loc[p].key, db |-> call[p].db]
    /\ AtUnlock(p, "Delete") \/ AtUnlock(p, "GetOrExpired") =>
         /\ writer = p
         /\ \A n \in 1..Len(loc[p].hooks) :
              /\ loc[p].hooks[n].db = call[p].db
              /\ loc[p].hooks[n].key \notin DOMAIN DbOf(p).keys
              /\ loc[p].hooks[n].key \notin DOMAIN DbOf(p).expiringKeys

\* the hook of an expired item has returned inside GetOrExpired and the key
\* is still in both maps
C13_Witness ==
  \E p \in Procs :
    /\ pc[p] = "delete_remove" /\ call[p].op = "GetOrExpired"
    /\ Len(loc[p].hooks) = 1
    /\ StillStored(p)
    /\ loc[p].key \in DOMAIN DbOf(p).expiringKeys

\* the entry of key k in expiringKeys of database d goes away or changes
IndexEntryChanges(d, k) ==
  /\ k \in DOMAIN dbs[d].expiringKeys
  /\ \/ k \notin DOMAIN dbs'[d].expiringKeys
     \/ dbs'[d].expiringKeys[k] # dbs[d].expiringKeys[k]

C16_DoubleCheckedAcquisition ==
  /\ [] \A p \in Procs :
          /\ pc[p] = "RedisDb_probe" => p \in readers /\ writer = NoProc
          /\ pc[p] = "RedisDb_miss" => p \notin readers /\ writer # p
          /\ pc[p] \in {"RedisDb_create", "RedisDb_unlock"} => writer = p
  /\ [][ \A p \in Procs :
           pc[p] = "RedisDb_probe" /\ pc'[p] # "RedisDb_probe" =>
             IF call[p].dbId \in DOMAIN redisDbs
               THEN /\ pc'[p] = "idle" /\ writer' = NoProc
                    /\ redisDbs[call[p].dbId] \in returned'[call[p].dbId]
               ELSE pc'[p] = "RedisDb_miss" ]_vars
  /\ [][ \A p \in Procs :
           pc[p] = "RedisDb_create" /\ pc'[p] = "RedisDb_unlock" =>
             IF call[p].dbId \in DOMAIN redisDbs
               THEN /\ redisDbs' = redisDbs /\ dbs' = dbs
                    /\ loc'[p].retDb = redisDbs[call[p].dbId]
               ELSE /\ dbs' = Append(dbs, NewRedisDb(call[p].dbId))
                    /\ DOMAIN redisDbs' = DOMAIN redisDbs \cup {call[p].dbId}
                    /\ redisDbs'[call[p].dbId] = Len(dbs')
                    /\ loc'[p].retDb = Len(dbs') ]_vars
  /\ [][ redisDbs' # redisDbs =>
           \E p \in Procs : writer = p /\ pc[p] = "RedisDb_create"
                            /\ call[p].dbId \notin DOMAIN redisDbs ]_vars

\* a caller that missed on the first probe holds the exclusive lock and is
\* returning a database it did not create, while the other database exists
C16_Witness ==
  \E p \in Procs :
    /\ pc[p] = "RedisDb_unlock" /\ writer = p
    /\ returned[call[p].dbId] = { loc[p].retDb }
    /\ created[call[p].dbId] = 1
    /\ Len(dbs) = 2

\* C17: IsEmpty() answers whether keys has no entry and IsEmptyExpire()
\* whether expiringKeys has none: true for a database NewRedisDb has just
\* built, false after a Set, true again once the only key has been removed
\* by Delete or by GetOrExpired(k, true) on an expired item.
C17_IsEmpty ==
  /\ [] \A p \in Procs :
          /\ AtUnlock(p, "IsEmpty") => loc[p].retBool = (DOMAIN DbOf(p).keys = {})
          /\ AtUnlock(p, "IsEmptyExpire") =>
               loc[p].retBool = (DOMAIN DbOf(p).expiringKeys = {})
          /\ AtUnlock(p, "Set") =>
               /\ ~IsEmpty(call[p].db)
               /\ call[p].item.expires => ~IsEmptyExpire(call[p].db)
          /\ AtUnlock(p, "Delete") /\ DOMAIN loc[p].entryKeys \subseteq Range(call[p].keys) =>
               IsEmpty(call[p].db) /\ IsEmptyExpire(call[p].db)
          /\ ( /\ AtUnlock(p, "GetOrExpired") /\ call[p].deleteIfExpired
               /\ DOMAIN loc[p].entryKeys = {call[p].key} /\ WasExpired(p) ) =>
               IsEmpty(call[p].db) /\ IsEmptyExpire(call[p].db)
  /\ [][ Len(dbs') > Len(dbs) =>
           (IsEmpty(Len(dbs)) /\ IsEmptyExpire(Len(dbs)))' ]_vars

\* Delete has removed the only key of a database, an expiring one
C17_Witness ==
  \E p \in Procs : \E k \in KeyNames :
    /\ AtUnlock(p, "Delete")
    /\ DOMAIN loc[p].entryKeys = {k} /\ DOMAIN loc[p].entryExp = {k}
    /\ IsEmpty(call[p].db) /\ IsEmptyExpire(call[p].db)

\* C19: OnDelete runs only inside delete, called by Delete or by
\* GetOrExpired with deleteIfExpired on an item found expired, and always
\* for the item keys holds for the key at that moment; no other method runs
\* a hook, so an item displaced by a Set, also one left in expiringKeys and
\* dropped by a later delete of the key, goes without its hook.
C19_HookOnlyOnStoredItem ==
  /\ [][ \A p \in Procs :
           loc'[p].hooks # loc[p].hooks /\ loc'[p].hooks # <<>> =>
             /\ pc[p] = "delete_OnDelete"
             /\ \/ call[p].op = "Delete"
                \/ /\ call[p].op = "GetOrExpired" /\ call[p].deleteIfExpired
                   /\ ItemExpired(loc[p].i, loc[p].t)
             /\ exists(call[p].db, loc[p].key)
             /\ loc'[p].hooks =
                  Append(loc[p].hooks, [item |-> get(call[p].db, loc[p].key),
                                        key |-> loc[p].key, db |-> call[p].db]) ]_vars
  /\ [] \A p \in Procs :
          /\ call[p].op \notin {"Delete", "GetOrExpired"} => loc[p].hooks = <<>>
          /\ AtUnlock(p, "Delete") \/ AtUnlock(p, "GetOrExpired") =>
               \A n \in 1..Len(loc[p].hooks) :
                 /\ loc[p].hooks[n].key \in DOMAIN loc[p].entryKeys
                 /\ loc[p].hooks[n].item = loc[p].entryKeys[loc[p].hooks[n].key]

\* Delete has dropped a key whose expiringKeys entry was a displaced item:
\* the one hook it ran was that of the item in keys
C19_Witness ==
  \E p \in Procs : \E k \in KeyNames :
    /\ AtUnlock(p, "Delete") /\ k \in PresentArgs(p)
    /\ k \in DOMAIN loc[p].entryExp
    /\ loc[p].entryExp[k] # loc[p].entryKeys[k]
    /\ k \notin DOMAIN DbOf(p).expiringKeys
    /\ loc[p].hooks = << HookOf(p, k) >>

\* C18: between two Sets of a key, whatever Delete and GetOrExpired(k, true)
\* calls the goroutines interleave on it, OnDelete runs at most once for
\* the stored item and the Delete calls count the key at most once.
C18_OneRemovalPerStoredItem ==
  \A d \in DbIds : \A k \in KeyNames :
    /\ hist[d][k].hooks <= 1
    /\ hist[d][k].counted <= hist[d][k].hooks
    /\ \A p \in Procs :
         AtUnlock(p, "Delete") /\ dbs[call[p].db].id = d /\ k \in Range(call[p].keys) =>
           loc[p].c <= hist[d][k].counted

\* after a GetOrExpired(k, true) evicted the key, a Delete(k, k) of another
\* goroutine has found it absent and returns 0
C18_Witness ==
  \E p \in Procs : \E k \in KeyNames :
    /\ AtUnlock(p, "Delete") /\ call[p].keys = <<k, k>>
    /\ loc[p].c = 0 /\ loc[p].hooks = <<>>
    /\ hist[dbs[call[p].db].id][k] = [hooks |-> 1, counted |-> 0]

\* the hook of p is inside Lock() or RLock() of a method it called
HookBlocked(p) == pc[p] \in {"OnDelete_Lock", "OnDelete_RLock"}

\* C15: once a hook has called a locking method of the registry, its
\* goroutine holds the exclusive lock and stays where it is: the hook does
\* not return, the Delete or GetOrExpired around it does not complete, the
\* lock is not released, and no goroutine enters or leaves any method.
C15_HookReentryBlocksAll ==
  /\ [] \A p \in Procs : HookBlocked(p) => writer = p /\ readers = {}
  /\ [][ (\E p \in Procs : HookBlocked(p)) =>
           UNCHANGED <<pc, writer, readers, call, loc, dbs, redisDbs>> ]_vars

\* a hook run by GetOrExpired is blocked in Lock() while another goroutine
\* waits at the create path of RedisDb() and the clock has moved on
C15_Witness ==
  \E p \in Procs : \E q \in Procs \ {p} :
    /\ pc[p] = "OnDelete_Lock" /\ call[p].op = "GetOrExpired"
    /\ pc[q] = "RedisDb_miss"
    /\ now > loc[p].t

\* ---------------------------------------------------------------- C20
WaitingPcs == {"RLock_wait", "Lock_wait", "RedisDb_miss"} \cup PendingPcs
LockFree == writer = NoProc /\ readers = {}
Holds(p) == writer = p \/ p \in readers

\* C20: deadlock freedom. With hooks that return without touching the lock
\* and a fair scheduler, every call of a public method that has to wait for
\* the lock gets it, and every call in progress returns with the lock
\* released by it; a goroutine asking for the lock (RedisDb() between its
\* two probes included) holds it in no mode, nobody holds it in both modes,
\* and the lock is free whenever every goroutine is outside the methods.
C20_DeadlockFreedom ==
  /\ \A p \in LiveProcs : (pc[p] \in WaitingPcs) ~> Holds(p)
  /\ \A p \in LiveProcs : (pc[p] # "idle") ~> (pc[p] = "idle" /\ ~Holds(p))
  /\ [](\A p \in LiveProcs :
          /\ pc[p] \in WaitingPcs => ~Holds(p)
          /\ ~(writer = p /\ p \in readers))
  /\ []((\A p \in LiveProcs : pc[p] = "idle") => LockFree)

\* a writer has announced itself and waits for the reader that is inside
C20_Witness ==
  \E p, q \in Procs :
    /\ pc[p] \in PendingPcs
    /\ q \in readers /\ pc[q] \in SharedPcs
    /\ ~CanRLock /\ ~MayLock(p)

====
